---- MODULE Spec2Model ----
(***************************************************************************)
(* The file metadata engine of ufiles-api: the FileMetaData tree with its  *)
(* two-phase delete and restore, the ObjectMetaData ledger, the storage    *)
(* backend's key set, permission resolution, and the upload / change       *)
(* pipeline of services.py and file_manager.py.                            *)
(*                                                                         *)
(* One business (tenant) is modelled.  Identifiers (uids, user ids) are    *)
(* values of one type compared with =.  Timestamps are abstracted:         *)
(* updated_at is kept as the order `recency' (most recently saved row      *)
(* first), which is all the code reads it for (the $sort of list_files);   *)
(* deleted_at is null or set.                                              *)
(***************************************************************************)
EXTENDS Integers, Sequences, FiniteSets, TLC

\* ------------------------------------------------------------------ bounds
\* rows ever created in a behaviour of Spec (uuid4 never repeats: the uid of
\* a removed row is not reused)
MaxFiles == 3
\* rows ever created in a behaviour of SpecStore, SpecDedup and SpecPerm
MaxStoreFiles == 3
MaxDedupFiles == 3
MaxPermFiles == 1
\* rows ever created in a behaviour of SpecUpload
MaxUploadFiles == 2
\* rows ever created in a behaviour of SpecHistory, and the history entries a
\* row gets there
MaxHistoryFiles == 2
MaxHistory == 2
\* rows ever created in a behaviour of SpecRace, and requests in flight
MaxRaceFiles == 1
MaxRequests == 2
\* rows ever created in a behaviour of SpecTree
MaxTreeFiles == 2
\* rows ever created in a behaviour of SpecShared
MaxSharedFiles == 3
\* rows ever created in a behaviour of SpecUploadRace
MaxUploadRaceFiles == 3
\* rows ever created in a behaviour of SpecPathRace
MaxPathRaceFiles == 4
\* rows ever created in a behaviour of SpecLeak
MaxLeakFiles == 1
\* rows ever created in a behaviour of SpecList
MaxListFiles == 2
\* rows ever created in a behaviour of SpecPath
MaxPathFiles == 3
\* longest stored content and largest chunk size SpecStream reads with
MaxSize == 4
MaxChunk == 3
\* children of the directory SpecWide starts from
MaxChildren == 11
\* byte values of the encryption model are 0 .. MaxByte
MaxByte == 3
\* cuts a re-chunking makes in an encrypted stream
MaxCuts == 2

\* --------------------------------------------------------- program constants
\* schemas.py PermissionEnum
NONE == 0
READ == 10
WRITE == 20
MANAGE == 30
DELETE == 40
OWNER == 100
PermissionEnum == {NONE, READ, WRITE, MANAGE, DELETE, OWNER}

\* default page size of FileMetaData.list_files (limit: int = 10)
DefaultLimit == 10

\* ------------------------------------------------------------------ values
Users == {"u1", "u2"}
NoUser == "none"             \* user_id = None (anonymous)
NoParent == 0                \* parent_id = None (the root)
NoHash == "none"             \* filehash = None
NoName == "none"             \* filename filter not given
NoKey == <<>>                \* s3_key = None
BusinessName == "biz"
Contents == {"c1", "c2"}
Filenames == {"notes.txt", "copy.txt"}
NULL == "null"               \* deleted_at = None
SET == "set"                 \* deleted_at = datetime.now()
NoError == "ok"

\* hashlib.md5(bytes).hexdigest(): distinct contents of the model have
\* distinct digests
md5(c) == IF c = "c1" THEN "h1" ELSE "h2"

\* check_file: the mime type check_file_type detects and len(file.getvalue())
check_file(c) ==
    IF c = "c1" THEN [mime |-> "text/plain", size |-> 10]
    ELSE [mime |-> "image/png", size |-> 20]

\* s3_key = f"{business.name}/{filehash}"
s3_key_of(filehash) == <<BusinessName, filehash>>

VARIABLES
    files,      \* FileMetaData collection: uid -> row
    recency,    \* uids of the rows, latest updated_at first
    objects,    \* ObjectMetaData collection: the s3_keys that have a row
    backend,    \* keys stored in the storage backend
    nextUid,    \* the uid the next new row gets
    last,       \* the last handler call: operation, arguments, outcome
    snap,       \* is_deleted/deleted_at of every row before the last soft delete
    loaded      \* requests in flight: the document each one has loaded

vars == <<files, recency, objects, backend, nextUid, last, snap, loaded>>

\* ------------------------------------------------------------- permissions
\* PermissionSchema.delete / .write / .manage / .read
p_read(level) == level >= READ
p_write(level) == level >= WRITE
p_manage(level) == level >= MANAGE
p_delete(level) == level >= DELETE

Min(S) == CHOOSE x \in S : \A y \in S : x <= y

\* user_permission with the ACL consulted before the owner test
user_permission_acl_first(self, user_id) ==
    IF user_id = NoUser THEN self.public_permission
    ELSE LET hit == {i \in 1 .. Len(self.permissions) :
                        self.permissions[i].user_id = user_id}
         IN  IF hit # {} THEN self.permissions[Min(hit)].permission
             ELSE IF self.user_id = user_id THEN OWNER
             ELSE self.public_permission

\* user_permission without the loop over self.permissions
user_permission_no_acl(self, user_id) ==
    IF user_id = NoUser THEN self.public_permission
    ELSE IF self.user_id = user_id THEN OWNER
    ELSE self.public_permission

\* FileMetaData.user_permission, as the level of the schema it returns
user_permission(self, user_id) ==
    IF user_id = NoUser THEN self.public_permission
    ELSE IF self.user_id = user_id THEN OWNER
    ELSE LET hit == {i \in 1 .. Len(self.permissions) :
                        self.permissions[i].user_id = user_id}
         IN  IF hit # {} THEN self.permissions[Min(hit)].permission
             ELSE self.public_permission

\* ------------------------------------------------------------------ queries
\* the keyword arguments of list_files with their defaults
ListQuery ==
    [parent_id |-> NoParent, filehash |-> NoHash, filename |-> NoName,
     is_deleted |-> FALSE, is_directory |-> "any",
     offset |-> 0, limit |-> DefaultLimit]

\* the $match of list_files (no file_id): the row is the user's own or the
\* user holds an ACL entry above READ, and the filters that stay in the query
list_match(f, user_id, q) ==
    LET keep_parent ==
            /\ q.filehash = NoHash
            /\ ~(q.filename # NoName /\ q.parent_id = NoParent)
            /\ ~(q.is_deleted /\ q.parent_id = NoParent)
    IN  /\ f.is_deleted = q.is_deleted
        /\ \/ f.user_id = user_id
           \/ \E i \in 1 .. Len(f.permissions) :
                 /\ f.permissions[i].user_id = user_id
                 /\ f.permissions[i].permission > READ
        /\ keep_parent => f.parent_id = q.parent_id
        /\ q.filehash # NoHash => f.filehash = q.filehash
        /\ q.filename # NoName => f.filename = q.filename
        /\ q.is_directory = "yes" => f.is_directory
        /\ q.is_directory = "no" => ~f.is_directory

\* FileMetaData.list_files without file_id: the matching rows sorted by
\* updated_at descending, then $skip offset and $limit limit
list_files(fs, rec, user_id, q) ==
    IF user_id = NoUser THEN <<>>
    ELSE LET hits == SelectSeq(rec, LAMBDA u : list_match(fs[u], user_id, q))
             lo == (IF q.offset > 0 THEN q.offset ELSE 0) + 1
             hi == IF lo + q.limit - 1 < Len(hits) THEN lo + q.limit - 1
                   ELSE Len(hits)
         IN  SubSeq(hits, lo, hi)

\* ------------------------------------------------------------------- store
Store == [files |-> files, recency |-> recency, objects |-> objects,
          backend |-> backend, error |-> NoError]

Raise(st, e) == [st EXCEPT !.error = e]

Without(seq, u) == SelectSeq(seq, LAMBDA x : x # u)

\* Document.save(): the row is written whole and pre_save stamps updated_at
save(st, uid, row) ==
    [st EXCEPT !.files = [u \in DOMAIN st.files \cup {uid} |->
                             IF u = uid THEN row ELSE st.files[u]],
               !.recency = <<uid>> \o Without(st.recency, uid)]

\* Document.delete(): the row is removed
remove(st, uid) ==
    [st EXCEPT !.files = [u \in DOMAIN st.files \ {uid} |-> st.files[u]],
               !.recency = Without(st.recency, uid)]

\* FileMetaData.find({"s3_key": key}).count()
count_s3_key(fs, key) == Cardinality({u \in DOMAIN fs : fs[u].s3_key = key})

\* services.delete_file_from_s3: delete_object on the bucket
delete_file_from_s3(st, key) == [st EXCEPT !.backend = @ \ {key}]

\* ObjectMetaData.delete
ObjectMetaData_delete(st, key) ==
    IF count_s3_key(st.files, key) # 0 THEN st
    ELSE LET st1 == delete_file_from_s3(st, key)
         IN  [st1 EXCEPT !.objects = @ \ {key}]

\* ------------------------------------------------------- delete and restore
RECURSIVE FileMetaData_delete(_, _, _)
RECURSIVE delete_each(_, _, _)
RECURSIVE FileMetaData_restore(_, _, _)
RECURSIVE restore_each(_, _, _)

\* `for file in files: await file.delete(user_id)': an exception ends the loop
delete_each(st, listed, user_id) ==
    IF listed = <<>> \/ st.error # NoError THEN st
    ELSE delete_each(FileMetaData_delete(st, Head(listed), user_id),
                     Tail(listed), user_id)

\* FileMetaData.delete
FileMetaData_delete(st, uid, user_id) ==
    LET self == st.files[uid]
    IN  IF ~p_delete(user_permission(self, user_id))
        THEN Raise(st, "PermissionError")
        ELSE
        LET listed == IF self.is_directory
                      THEN list_files(st.files, st.recency, user_id,
                               [ListQuery EXCEPT !.parent_id = uid,
                                                 !.is_deleted = self.is_deleted])
                      ELSE <<>>
            st1 == delete_each(st, listed, user_id)
        IN  IF st1.error # NoError THEN st1
            ELSE IF ~self.is_deleted
            THEN save(st1, uid, [self EXCEPT !.is_deleted = TRUE,
                                             !.deleted_at = SET])
            ELSE LET st2 == remove(st1, uid)
                 IN  IF /\ count_s3_key(st2.files, self.s3_key) = 0
                        /\ self.s3_key \in st2.objects
                     THEN ObjectMetaData_delete(st2, self.s3_key)
                     ELSE st2

\* `for file in files: await file.restore(user_id)'
restore_each(st, listed, user_id) ==
    IF listed = <<>> \/ st.error # NoError THEN st
    ELSE restore_each(FileMetaData_restore(st, Head(listed), user_id),
                      Tail(listed), user_id)

\* FileMetaData.restore
FileMetaData_restore(st, uid, user_id) ==
    LET self == st.files[uid]
    IN  IF ~p_delete(user_permission(self, user_id))
        THEN Raise(st, "PermissionError")
        ELSE
        LET listed == IF self.is_directory
                      THEN list_files(st.files, st.recency, user_id,
                               [ListQuery EXCEPT !.parent_id = uid,
                                                 !.is_deleted = TRUE])
                      ELSE <<>>
            st1 == restore_each(st, listed, user_id)
        IN  IF st1.error # NoError THEN st1
            ELSE IF self.is_deleted
            THEN save(st1, uid, [self EXCEPT !.is_deleted = FALSE,
                                             !.deleted_at = NULL])
            ELSE st1

\* ------------------------------------------------------------------ upload
\* what a write to the storage backend does: the object is stored, the client
\* raises, or the call returns and the object is not there
WriteOutcomes == {"stored", "raises", "absent"}

\* services.upload_to_s3 / StorageBackend.upload_file
upload_to_s3(st, key, outcome) ==
    IF outcome = "raises" THEN Raise(st, "UploadError")
    ELSE IF outcome = "stored" THEN [st EXCEPT !.backend = @ \cup {key}]
    ELSE st

\* services.manage_upload_to_s3 (the task process_file and change_file
\* start): upload and ledger row unless the key already has a row
manage_upload_to_s3(st, key, outcome) ==
    IF key \in st.objects THEN st
    ELSE LET st1 == upload_to_s3(st, key, outcome)
         IN  IF st1.error # NoError THEN st1
             ELSE [st1 EXCEPT !.objects = @ \cup {key}]

\* FileManager._manage_upload_to_storage: as above, with file_exists checked
\* after the write
manage_upload_to_storage(st, key, outcome) ==
    IF key \in st.objects THEN st
    ELSE LET st1 == upload_to_s3(st, key, outcome)
         IN  IF st1.error # NoError THEN st1
             ELSE IF key \notin st1.backend THEN Raise(st1, "upload_failed")
             ELSE [st1 EXCEPT !.objects = @ \cup {key}]

\* `upload_task = asyncio.create_task(...); if blocking: await upload_task':
\* the store the task leaves; its exception reaches the caller only when the
\* task is awaited
upload_task(st1, blocking) ==
    IF blocking THEN st1 ELSE [st1 EXCEPT !.error = NoError]

\* `for existed in existing: if existed.parent_id == parent_id: return existed'
\* (0 when the loop falls through)
first_with_parent(fs, existing, parent_id) ==
    LET hit == {i \in 1 .. Len(existing) : fs[existing[i]].parent_id = parent_id}
    IN  IF hit = {} THEN 0 ELSE existing[Min(hit)]

\* a FileMetaData as the constructor builds it (field defaults of the class)
NewFile(user_id, parent_id, is_directory, filename, permissions, public) ==
    [user_id |-> user_id, parent_id |-> parent_id,
     is_directory |-> is_directory, filename |-> filename,
     s3_key |-> NoKey, filehash |-> NoHash,
     is_deleted |-> FALSE, deleted_at |-> NULL,
     permissions |-> permissions, public_permission |-> public,
     content_type |-> "inode/directory", size |-> 4096,
     history |-> <<>>]

\* the FileMetaData process_file builds for new content
\* (business.config.access_type is public: public_permission READ)
UploadedFile(user_id, parent_id, filename, filehash, mime, size) ==
    [NewFile(user_id, parent_id, FALSE, filename, <<>>, READ)
        EXCEPT !.s3_key = s3_key_of(filehash), !.filehash = filehash,
               !.content_type = mime, !.size = size]

\* services.process_file for a filename without "/": the store after the
\* upload task, the uid of the existing row it returns (0: a new, unsaved
\* record) and the record
process_file(st, user_id, parent_id, filename, c, blocking, outcome) ==
    LET filehash == md5(c)
        existing == list_files(st.files, st.recency, user_id,
                        [ListQuery EXCEPT !.filehash = filehash,
                                          !.filename = filename])
        existed == first_with_parent(st.files, existing, parent_id)
    IN  IF existed # 0
        THEN [st |-> st, uid |-> existed, row |-> st.files[existed]]
        ELSE [st |-> upload_task(manage_upload_to_s3(st, s3_key_of(filehash),
                                                     outcome), blocking),
              uid |-> 0,
              row |-> UploadedFile(user_id, parent_id, filename, filehash,
                                   check_file(c).mime, check_file(c).size)]

\* FileMetaData.list_items(filehash=...) of the FileManager's model class:
\* the listed (not deleted) rows with that content hash
list_items(fs, rec, filehash) ==
    SelectSeq(rec, LAMBDA u : ~fs[u].is_deleted /\ fs[u].filehash = filehash)

\* FileManager.process_file for a filename without "/"
FileManager_process_file(st, user_id, parent_id, filename, c, blocking, outcome) ==
    LET filehash == md5(c)
        existing == list_items(st.files, st.recency, filehash)
        existed == first_with_parent(st.files, existing, parent_id)
    IN  IF existed # 0
        THEN [st |-> st, uid |-> existed, row |-> st.files[existed]]
        ELSE [st |-> upload_task(manage_upload_to_storage(st,
                                     s3_key_of(filehash), outcome), blocking),
              uid |-> 0,
              row |-> UploadedFile(user_id, parent_id, filename, filehash,
                                   check_file(c).mime, check_file(c).size)]

\* model_dump(include=[...]) of the fields change_file keeps in history
history_entry(self) ==
    [s3_key |-> self.s3_key, filehash |-> self.filehash,
     filename |-> self.filename, content_type |-> self.content_type,
     size |-> self.size]

\* change_file with the history entry taken after the row was pointed at the
\* new content
change_file_history_after(st, uid, c, overwrite) ==
    LET self == st.files[uid]
        filehash == md5(c)
        existing == list_files(st.files, st.recency, self.user_id,
                        [ListQuery EXCEPT !.filehash = filehash])
        existed == first_with_parent(st.files, existing, self.parent_id)
    IN  IF existed # 0 THEN [st |-> st, uid |-> existed]
        ELSE
        LET key == s3_key_of(filehash)
            st1 == manage_upload_to_s3(st, key, "stored")
            st2 == IF overwrite THEN delete_file_from_s3(st1, self.s3_key)
                   ELSE st1
            new == [self EXCEPT !.s3_key = key, !.filehash = filehash,
                                !.size = check_file(c).size,
                                !.content_type = check_file(c).mime]
            hist == IF overwrite THEN self.history
                    ELSE Append(self.history, history_entry(new))
        IN  [st |-> save(st2, uid, [new EXCEPT !.history = hist]),
             uid |-> uid]

\* services.change_file (FileManager.change_file does the same through the
\* storage backend): the store, the uid of the row it returns
change_file(st, uid, c, overwrite) ==
    LET self == st.files[uid]
        filehash == md5(c)
        existing == list_files(st.files, st.recency, self.user_id,
                        [ListQuery EXCEPT !.filehash = filehash])
        existed == first_with_parent(st.files, existing, self.parent_id)
    IN  IF existed # 0 THEN [st |-> st, uid |-> existed]
        ELSE
        LET key == s3_key_of(filehash)
            st1 == manage_upload_to_s3(st, key, "stored")
            st2 == IF overwrite THEN delete_file_from_s3(st1, self.s3_key)
                   ELSE st1
            hist == IF overwrite THEN self.history
                    ELSE Append(self.history, history_entry(self))
        IN  [st |-> save(st2, uid, [self EXCEPT !.history = hist,
                                                !.s3_key = key,
                                                !.size = check_file(c).size,
                                                !.content_type =
                                                    check_file(c).mime,
                                                !.filehash = filehash]),
             uid |-> uid]

\* ObjectMetaData.delete_s3_key
delete_s3_key(st, key) ==
    LET st1 == delete_file_from_s3(st, key)
    IN  IF key \in st1.objects THEN ObjectMetaData_delete(st1, key)
        ELSE Raise(st1, "AttributeError")

\* FileMetaData.set_permission on the loaded row
set_permission(self, permission) ==
    IF permission.user_id = self.user_id
    THEN [row |-> self, error |-> "PermissionError"]
    ELSE LET hit == {i \in 1 .. Len(self.permissions) :
                        self.permissions[i].user_id = permission.user_id}
         IN  [row |-> IF hit # {}
                      THEN [self EXCEPT !.permissions[Min(hit)].permission =
                                            permission.permission]
                      ELSE [self EXCEPT !.permissions = Append(@, permission)],
              error |-> NoError]

\* `for permission in update.permissions: await item.set_permission(permission)'
RECURSIVE set_permissions(_, _)
set_permissions(r, permissions) ==
    IF permissions = <<>> \/ r.error # NoError THEN r
    ELSE set_permissions(set_permission(r.row, Head(permissions)),
                         Tail(permissions))

\* ------------------------------------------------------------------- state
NoSnap == <<>>
NoLevel == -1                \* update.public_permission = None

\* is_deleted and deleted_at of every row
Flags(fs) == [u \in DOMAIN fs |-> <<fs[u].is_deleted, fs[u].deleted_at>>]

Commit(st) ==
    /\ files' = st.files
    /\ recency' = st.recency
    /\ objects' = st.objects
    /\ backend' = st.backend

Call(op, uid, user_id, args, result, ret) ==
    [op |-> op, uid |-> uid, user_id |-> user_id, args |-> args,
     result |-> result, ret |-> ret]

Init ==
    /\ files = <<>>
    /\ recency = <<>>
    /\ objects = {}
    /\ backend = {}
    /\ nextUid = 1
    /\ last = Call("init", 0, NoUser, <<>>, NoError, 0)
    /\ snap = NoSnap
    /\ loaded = <<>>

\* routes.create_item: POST /f/ with a FileMetaDataCreate body
create_item(user_id, parent_id, is_directory, filename, permissions, public) ==
    /\ Commit(save(Store, nextUid,
                   NewFile(user_id, parent_id, is_directory, filename,
                           permissions, public)))
    /\ nextUid' = nextUid + 1
    /\ last' = Call("create", nextUid, user_id, <<>>, NoError, nextUid)
    /\ UNCHANGED loaded
    /\ snap' = NoSnap

\* a call of FileMetaData.delete(user_id) on a stored row; args records
\* whether the row was soft-deleted when the call was made
delete(uid, user_id) ==
    /\ uid \in DOMAIN files
    /\ LET st == FileMetaData_delete(Store, uid, user_id)
       IN  /\ Commit(st)
           /\ last' = Call("delete", uid, user_id, <<files[uid].is_deleted>>,
                           st.error, 0)
           /\ UNCHANGED loaded
           /\ snap' = IF ~files[uid].is_deleted /\ st.error = NoError
                      THEN Flags(files) ELSE NoSnap
    /\ UNCHANGED nextUid

\* a call of FileMetaData.restore(user_id) on a stored row
restore(uid, user_id) ==
    /\ uid \in DOMAIN files
    /\ LET st == FileMetaData_restore(Store, uid, user_id)
       IN  /\ Commit(st)
           /\ last' = Call("restore", uid, user_id, <<files[uid].is_deleted>>,
                           st.error, 0)
           \* snap is kept only for the restore that directly follows the
           \* soft delete of the same row by the same user
           /\ UNCHANGED loaded
           /\ snap' = IF /\ last.op = "delete" /\ last.result = NoError
                         /\ last.args = <<FALSE>>
                         /\ last.uid = uid /\ last.user_id = user_id
                      THEN snap ELSE NoSnap
    /\ UNCHANGED nextUid

\* routes.upload_file: services.process_file, then file_metadata.save();
\* the upload task has run when the handler is over.  An exception of
\* process_file ends the handler before save(); ret is the uid of the record
\* returned (0: none).
upload_file(user_id, parent_id, filename, c, blocking, outcome) ==
    LET r == process_file(Store, user_id, parent_id, filename, c, blocking,
                          outcome)
        ok == r.st.error = NoError
        uid == IF ~ok THEN 0 ELSE IF r.uid # 0 THEN r.uid ELSE nextUid
    IN  /\ Commit(IF ok THEN save(r.st, uid, r.row) ELSE r.st)
        /\ nextUid' = IF ok /\ r.uid = 0 THEN nextUid + 1 ELSE nextUid
        /\ last' = Call("upload", uid, user_id,
                        <<parent_id, filename, c, blocking, outcome>>,
                        r.st.error, uid)
        /\ UNCHANGED loaded
        /\ snap' = NoSnap

\* FileManager.process_file, the record saved by the caller
file_manager_upload(user_id, parent_id, filename, c, blocking, outcome) ==
    LET r == FileManager_process_file(Store, user_id, parent_id, filename, c,
                                      blocking, outcome)
        ok == r.st.error = NoError
        uid == IF ~ok THEN 0 ELSE IF r.uid # 0 THEN r.uid ELSE nextUid
    IN  /\ Commit(IF ok THEN save(r.st, uid, r.row) ELSE r.st)
        /\ nextUid' = IF ok /\ r.uid = 0 THEN nextUid + 1 ELSE nextUid
        /\ last' = Call("upload_fm", uid, user_id,
                        <<parent_id, filename, c, blocking, outcome>>,
                        r.st.error, uid)
        /\ UNCHANGED loaded
        /\ snap' = NoSnap

\* FilesRouter.get_file for a signed-in user who is not the business owner:
\* the row or a 404
get_file(uid, user_id) ==
    IF uid \in DOMAIN files /\ p_read(user_permission(files[uid], user_id))
    THEN NoError ELSE "404"

\* the same lookup on a given collection
FilesRouter_get_file(fs, uid, user_id) ==
    IF uid \in DOMAIN fs /\ p_read(user_permission(fs[uid], user_id))
    THEN NoError ELSE "404"

\* routes.change_item: PUT /f/{uid}; args records overwrite, the row's
\* storage key before the call and the new content
change_item(uid, user_id, c, overwrite) ==
    /\ uid \in DOMAIN files
    /\ LET err == IF get_file(uid, user_id) # NoError THEN "404"
                  ELSE IF ~p_write(user_permission(files[uid], user_id))
                  THEN "403"
                  ELSE IF files[uid].is_deleted THEN "400"
                  ELSE NoError
           r == IF err = NoError THEN change_file(Store, uid, c, overwrite)
                ELSE [st |-> Store, uid |-> 0]
       IN  /\ Commit(r.st)
           /\ last' = Call("change_file", uid, user_id,
                           <<overwrite, files[uid].s3_key, c>>, err, r.uid)
    /\ UNCHANGED loaded
    /\ snap' = NoSnap
    /\ UNCHANGED nextUid

\* a call of ObjectMetaData.delete() on the ledger row of key
object_delete(key) ==
    /\ key \in objects
    /\ Commit(ObjectMetaData_delete(Store, key))
    /\ last' = Call("object_delete", 0, NoUser, <<key>>, NoError, 0)
    /\ UNCHANGED loaded
    /\ snap' = NoSnap
    /\ UNCHANGED nextUid

\* a call of ObjectMetaData.delete_s3_key(key)
object_delete_s3_key(key) ==
    /\ LET st == delete_s3_key(Store, key)
       IN  /\ Commit(st)
           /\ last' = Call("delete_s3_key", 0, NoUser, <<key>>, st.error, 0)
    /\ UNCHANGED loaded
    /\ snap' = NoSnap
    /\ UNCHANGED nextUid

\* routes.update_item: PATCH /f/{uid} with a FileMetaDataUpdate that carries
\* public_permission (NoLevel: None) and permissions; is_deleted, filename and
\* parent_id are None.  Nothing is stored unless the handler reaches save().
update_item(uid, user_id, public, permissions) ==
    /\ uid \in DOMAIN files
    /\ LET self == files[uid]
           level == user_permission(self, user_id)
           need_manage == permissions # <<>> \/ public # NoLevel
           item == IF public # NoLevel
                   THEN [self EXCEPT !.public_permission = public] ELSE self
           r == set_permissions([row |-> item, error |-> NoError], permissions)
           err == IF get_file(uid, user_id) # NoError THEN "404"
                  ELSE IF ~p_write(level) THEN "403"
                  ELSE IF need_manage /\ ~p_manage(level) THEN "403"
                  ELSE r.error
       IN  /\ Commit(IF err = NoError THEN save(Store, uid, r.row) ELSE Store)
           /\ last' = Call("update", uid, user_id, <<public, permissions>>,
                           err, uid)
    /\ UNCHANGED loaded
    /\ snap' = NoSnap
    /\ UNCHANGED nextUid

\* a call of FileMetaData.user_permission(user_id) on a stored row; ret is
\* the level of the permission it returns
resolve(uid, user_id) ==
    /\ uid \in DOMAIN files
    /\ last' = Call("user_permission", uid, user_id, <<>>, NoError,
                    user_permission(files[uid], user_id))
    /\ UNCHANGED loaded
    /\ snap' = NoSnap
    /\ UNCHANGED <<files, recency, objects, backend, nextUid>>

Dirs == {u \in DOMAIN files : files[u].is_directory}

\* ------------------------------------------------- Spec: the tree lifecycle
\* rows created by u1, shared with u2 through the ACL sent at creation
AclInputs ==
    {<<>>} \cup {<<[user_id |-> "u2", permission |-> l]>> : l \in {WRITE, DELETE}}

Next ==
    \/ /\ nextUid <= MaxFiles
       /\ \E p \in Dirs \cup {NoParent}, d \in BOOLEAN, acl \in AclInputs :
             create_item("u1", p, d, "notes.txt", acl, NONE)
    \/ \E uid \in 1 .. MaxFiles, u \in Users : delete(uid, u)
    \/ \E uid \in 1 .. MaxFiles, u \in Users : restore(uid, u)

Spec == Init /\ [][Next]_vars

\* --------------------------------- SpecWide: one directory, many children
\* the store after u1 created directory 1 and then n files in it
WideFiles(n) ==
    [u \in 1 .. n + 1 |->
        NewFile("u1", IF u = 1 THEN NoParent ELSE 1, u = 1, "notes.txt",
                <<>>, NONE)]

InitWide ==
    \E n \in 0 .. MaxChildren :
        /\ files = WideFiles(n)
        /\ recency = [i \in 1 .. n + 1 |-> n + 2 - i]
        /\ objects = {}
        /\ backend = {}
        /\ nextUid = n + 2
        /\ last = Call("create", n + 1, "u1", <<>>, NoError, n + 1)
        /\ snap = NoSnap
        /\ loaded = <<>>

\* the directory and its first two children are deleted and restored
WideTargets == {1, 2, 3}

NextWide ==
    \/ \E uid \in WideTargets : delete(uid, "u1")
    \/ \E uid \in WideTargets : restore(uid, "u1")

SpecWide == InitWide /\ [][NextWide]_vars

\* ------------------------------- SpecStore: the ledger and the backend
NextStore ==
    \/ /\ nextUid <= MaxStoreFiles
       /\ \E u \in Users, c \in Contents :
             upload_file(u, NoParent, "notes.txt", c, TRUE, "stored")
    \/ \E uid \in 1 .. MaxStoreFiles : delete(uid, files[uid].user_id)
    \/ \E uid \in 1 .. MaxStoreFiles : restore(uid, files[uid].user_id)
    \/ \E uid \in 1 .. MaxStoreFiles, c \in Contents :
          /\ uid \in DOMAIN files
          /\ change_item(uid, files[uid].user_id, c, TRUE)
    \/ \E c \in Contents : object_delete(s3_key_of(md5(c)))
    \/ \E c \in Contents : object_delete_s3_key(s3_key_of(md5(c)))

SpecStore == Init /\ [][NextStore]_vars

\* ------------------------------------ SpecDedup: uploads and their dedup
NextDedup ==
    \/ /\ nextUid <= MaxDedupFiles
       /\ \E u \in Users, f \in Filenames, c \in Contents :
             upload_file(u, NoParent, f, c, TRUE, "stored")
    \/ /\ nextUid <= MaxDedupFiles
       /\ \E u \in Users, f \in Filenames, c \in Contents :
             file_manager_upload(u, NoParent, f, c, TRUE, "stored")
    \/ \E uid \in 1 .. MaxDedupFiles, u \in Users :
          /\ uid \in DOMAIN files
          /\ update_item(uid, files[uid].user_id, NoLevel,
                         <<[user_id |-> u, permission |-> WRITE]>>)

SpecDedup == Init /\ [][NextDedup]_vars

\* ------------------------------------ SpecPerm: permission resolution
\* rows created by u1 with an ACL that may name the owner, name u2, or name
\* u2 twice; both users and the anonymous user ask for their level
PermLevels == {READ, DELETE}
PermEntries == [user_id : Users, permission : PermLevels]
PermAclInputs ==
    {<<>>} \cup {<<e>> : e \in PermEntries}
           \cup {<<[user_id |-> "u2", permission |-> READ],
                    [user_id |-> "u2", permission |-> DELETE]>>,
                  <<[user_id |-> "u1", permission |-> READ],
                    [user_id |-> "u2", permission |-> DELETE]>>}

NextPerm ==
    \/ /\ nextUid <= MaxPermFiles
       /\ \E acl \in PermAclInputs, pub \in {NONE, READ} :
             create_item("u1", NoParent, FALSE, "notes.txt", acl, pub)
    \/ \E uid \in 1 .. MaxPermFiles, u \in Users, pub \in {NoLevel, NONE, READ},
          acl \in {<<>>} \cup {<<e>> : e \in PermEntries} :
          update_item(uid, u, pub, acl)
    \/ \E uid \in 1 .. MaxPermFiles, u \in Users \cup {NoUser} : resolve(uid, u)

SpecPerm == Init /\ [][NextPerm]_vars

\* ------------------------- SpecUpload: uploads whose backend write may fail
\* u1 uploads to the root through either pipeline, blocking or not, with every
\* outcome of the write, and overwrites the content of stored rows
NextUpload ==
    \/ /\ nextUid <= MaxUploadFiles
       /\ \E c \in Contents, b \in BOOLEAN, o \in WriteOutcomes :
             upload_file("u1", NoParent, "notes.txt", c, b, o)
    \/ /\ nextUid <= MaxUploadFiles
       /\ \E c \in Contents, b \in BOOLEAN, o \in WriteOutcomes :
             file_manager_upload("u1", NoParent, "notes.txt", c, b, o)
    \/ \E uid \in 1 .. MaxUploadFiles, c \in Contents :
          /\ uid \in DOMAIN files
          /\ change_item(uid, files[uid].user_id, c, TRUE)

SpecUpload == Init /\ [][NextUpload]_vars

\* ------------------------ SpecHistory: content changes that keep history
\* u1 uploads to the root and changes the content of the rows, overwriting
\* or keeping the previous version in history
NextHistory ==
    \/ /\ nextUid <= MaxHistoryFiles
       /\ \E f \in Filenames, c \in Contents :
             upload_file("u1", NoParent, f, c, TRUE, "stored")
    \/ \E uid \in 1 .. MaxHistoryFiles, c \in Contents, ov \in BOOLEAN :
          /\ uid \in DOMAIN files
          /\ ov \/ Len(files[uid].history) < MaxHistory
          /\ change_item(uid, files[uid].user_id, c, ov)

SpecHistory == Init /\ [][NextHistory]_vars

\* ------------------------------------------------- responses of the routes
Entrypoints == {"retrieve", "download", "delete_item"}

\* what the user dependency does with a request that carries no user
AuthOutcomes == {"raises", "none"}

\* a delete route that answers 403 to every caller who may not delete
Response_forbidden_first(entry, fs, uid, user_id, auth) ==
    IF entry = "delete_item" /\ user_id = NoUser /\ auth = "raises" THEN "401"
    ELSE IF uid \notin DOMAIN fs THEN "404"
    ELSE IF entry = "delete_item"
            /\ ~p_delete(user_permission(fs[uid], user_id))
    THEN "403"
    ELSE IF ~p_read(user_permission(fs[uid], user_id)) THEN "404"
    ELSE IF entry = "download" /\ fs[uid].is_directory THEN "400"
    ELSE "200"

\* the status the entrypoint answers with on collection fs, up to the point
\* where it starts to act on the row ("200": it goes on). The read routes
\* take a failed get_user as the anonymous caller; delete_item calls get_user
\* unguarded: for a request without a user it raises (401) or returns None,
\* and then `user.uid' fails once the row is found (500).
Response(entry, fs, uid, user_id, auth) ==
    IF entry = "delete_item" /\ user_id = NoUser /\ auth = "raises" THEN "401"
    ELSE IF FilesRouter_get_file(fs, uid, user_id) # NoError THEN "404"
    ELSE IF entry = "download" /\ fs[uid].is_directory THEN "400"
    ELSE IF entry = "delete_item" /\ user_id = NoUser THEN "500"
    ELSE IF entry = "delete_item"
            /\ ~p_delete(user_permission(fs[uid], user_id))
    THEN (IF p_read(user_permission(fs[uid], user_id)) THEN "403" ELSE "404")
    ELSE "200"

\* `file.access_at = datetime.now(); await file.save()' of the read routes
touch(st, uid) == save(st, uid, st.files[uid])

\* FilesRouter.retrieve_item without details (GET /f/{uid}) and
\* download_file_endpoint (GET /d/{uid}): the row of a file is saved with its
\* new access_at before the content is streamed
read_item(entry, uid, user_id) ==
    LET status == Response(entry, files, uid, user_id, "none")
    IN  /\ Commit(IF status = "200" /\ ~files[uid].is_directory
                  THEN touch(Store, uid) ELSE Store)
        /\ last' = Call(entry, uid, user_id, <<"none">>, status, 0)
        /\ UNCHANGED loaded
        /\ snap' = NoSnap
        /\ UNCHANGED nextUid

\* FilesRouter.delete_item (DELETE /f/{uid}); an exception FileMetaData.delete
\* raises is the server's 500
delete_item(uid, user_id, auth) ==
    LET status == Response("delete_item", files, uid, user_id, auth)
        st == IF status = "200" THEN FileMetaData_delete(Store, uid, user_id)
              ELSE Store
    IN  /\ Commit(st)
        /\ last' = Call("delete_item", uid, user_id, <<auth>>,
                        IF st.error # NoError THEN "500" ELSE status, 0)
        /\ UNCHANGED loaded
        /\ snap' = NoSnap
        /\ UNCHANGED nextUid

\* ------------------------- SpecLeak: what the routes tell about existence
LeakAclInputs ==
    {<<>>} \cup {<<[user_id |-> "u2", permission |-> l]>> : l \in {READ, DELETE}}

\* u1 creates rows, private or public, shared with u2 or not; both users and
\* the anonymous user call the read and delete routes with uids that exist
\* and with one that does not
NextLeak ==
    \/ /\ nextUid <= MaxLeakFiles
       /\ \E d \in BOOLEAN, acl \in LeakAclInputs, pub \in {NONE, READ} :
             create_item("u1", NoParent, d, "notes.txt", acl, pub)
    \/ \E entry \in {"retrieve", "download"}, uid \in 1 .. MaxLeakFiles + 1,
          u \in Users \cup {NoUser} : read_item(entry, uid, u)
    \/ \E uid \in 1 .. MaxLeakFiles + 1, u \in Users \cup {NoUser},
          auth \in AuthOutcomes :
          /\ u \in Users => auth = "none"
          /\ delete_item(uid, u, auth)

SpecLeak == Init /\ [][NextLeak]_vars

\* ----------------------------------------- SpecList: listing the root
\* a call of FileMetaData.list_files(user_id, business_name) with the default
\* filters (the root, not deleted, first page); ret is the uids returned
list_files_call(user_id) ==
    /\ last' = Call("list_files", 0, user_id, <<>>, NoError,
                    list_files(files, recency, user_id, ListQuery))
    /\ UNCHANGED loaded
    /\ snap' = NoSnap
    /\ UNCHANGED <<files, recency, objects, backend, nextUid>>

ListAclInputs ==
    {<<>>} \cup {<<[user_id |-> "u2", permission |-> l]>> : l \in {READ, WRITE}}

\* u1 creates rows at the root, private or public, shared with u2 or not;
\* both users and the anonymous user list the root
NextList ==
    \/ /\ nextUid <= MaxListFiles
       /\ \E d \in BOOLEAN, acl \in ListAclInputs, pub \in {NONE, READ} :
             create_item("u1", NoParent, d, "notes.txt", acl, pub)
    \/ \E uid \in 1 .. MaxListFiles : delete(uid, "u1")
    \/ \E u \in Users \cup {NoUser} : list_files_call(u)

SpecList == Init /\ [][NextList]_vars

\* --------------------------------------------------------- path resolution
\* FileMetaData.create_directory: the row it saves under the uid given
create_directory(st, uid, user_id, dirname, parent_id) ==
    save(st, uid, NewFile(user_id, parent_id, TRUE, dirname, <<>>, NONE))

\* the loop of FileMetaData.get_path over parts[:-1] (dirs): the store, the
\* uid the next new row gets, and the parent_id reached
RECURSIVE get_path_walk(_, _, _, _, _, _)
get_path_walk(st, next, dirs, user_id, parent_id, create) ==
    IF dirs = <<>> \/ st.error # NoError
    THEN [st |-> st, next |-> next, parent_id |-> parent_id]
    ELSE LET part == Head(dirs)
             found == list_files(st.files, st.recency, user_id,
                          [ListQuery EXCEPT !.filename = part,
                                            !.is_directory = "yes",
                                            !.parent_id = parent_id])
         IN  IF found # <<>>
             THEN get_path_walk(st, next, Tail(dirs), user_id, found[1],
                                create)
             ELSE IF create
             THEN get_path_walk(create_directory(st, next, user_id, part,
                                                 parent_id),
                                next + 1, Tail(dirs), user_id, next, create)
             ELSE [st |-> Raise(st, "FileNotFoundError"), next |-> next,
                   parent_id |-> parent_id]

\* FileMetaData.get_path(filepath, business_name, user_id, parent_id, create)
\* for a filepath given as its parts
get_path(st, next, parts, user_id, parent_id, create) ==
    LET r == get_path_walk(st, next, SubSeq(parts, 1, Len(parts) - 1),
                           user_id, parent_id, create)
    IN  [st |-> r.st, next |-> r.next, parent_id |-> r.parent_id,
         filename |-> parts[Len(parts)]]

\* a call of FileMetaData.get_path; ret is the (parent_id, filename) returned
resolve_path(user_id, parts, parent_id, create) ==
    LET r == get_path(Store, nextUid, parts, user_id, parent_id, create)
    IN  /\ Commit(r.st)
        /\ nextUid' = r.next
        /\ last' = Call("get_path", 0, user_id, <<parts, parent_id, create>>,
                        r.st.error,
                        IF r.st.error = NoError
                        THEN <<r.parent_id, r.filename>> ELSE <<>>)
        /\ UNCHANGED loaded
        /\ snap' = NoSnap

\* ------------------------------------ SpecPath: directories and their paths
DirNames == {"a", "b"}
Paths ==
    {<<d, "f.txt">> : d \in DirNames}
        \cup {<<d1, d2, "f.txt">> : d1 \in DirNames, d2 \in DirNames}

\* u1 creates directories anywhere in the tree and resolves paths from the
\* root or from a directory
NextPath ==
    \/ /\ nextUid <= MaxPathFiles
       /\ \E p \in Dirs \cup {NoParent}, d \in DirNames :
             create_item("u1", p, TRUE, d, <<>>, NONE)
    \/ \E parts \in Paths, p \in Dirs \cup {NoParent}, create \in BOOLEAN :
          /\ create => nextUid + Len(parts) - 2 <= MaxPathFiles
          /\ resolve_path("u1", parts, p, create)

SpecPath == Init /\ [][NextPath]_vars

\* ------------------------------------------------------------- range reads
\* the bytes of a stored object of n bytes: byte i has value i
content_of(n) == [i \in 1 .. n |-> i]

RECURSIVE Concat(_)
Concat(chunks) ==
    IF chunks = <<>> THEN <<>> ELSE Head(chunks) \o Concat(Tail(chunks))

\* f.read(size) at position pos (bytes before it): at most size bytes, fewer
\* at the end of the file; a negative size reads to the end
read(content, pos, size) ==
    LET hi == IF size < 0 \/ pos + size > Len(content) THEN Len(content)
              ELSE pos + size
    IN  SubSeq(content, pos + 1, hi)

\* the `while True' loop of LocalStorageBackend.stream_file
RECURSIVE local_chunks(_, _, _, _)
local_chunks(content, pos, remaining, chunk_size) ==
    IF remaining <= 0 THEN <<>>
    ELSE LET read_size == IF chunk_size < remaining THEN chunk_size
                          ELSE remaining
             chunk == read(content, pos, read_size)
         IN  IF chunk = <<>> THEN <<>>
             ELSE <<chunk>> \o local_chunks(content, pos + Len(chunk),
                                            remaining - Len(chunk), chunk_size)

\* LocalStorageBackend.stream_file(key, start=start, end=end): the chunks
LocalStorageBackend_stream_file(content, start, end, chunk_size) ==
    LET end1 == IF end # 0 THEN end ELSE Len(content)
    IN  local_chunks(content, start, end1 - start + 1, chunk_size)

\* the `while True' loop of NextCloudStorageBackend.stream_file
RECURSIVE nextcloud_chunks(_, _, _, _)
nextcloud_chunks(content, pos, remaining, chunk_size) ==
    LET chunk == read(content, pos, IF chunk_size < remaining THEN chunk_size
                                    ELSE remaining)
        remaining1 == IF remaining > 0 THEN remaining - Len(chunk)
                      ELSE remaining
    IN  IF chunk = <<>> THEN <<>>
        ELSE <<chunk>> \o nextcloud_chunks(content, pos + Len(chunk),
                                           remaining1, chunk_size)

\* NextCloudStorageBackend.stream_file
NextCloudStorageBackend_stream_file(content, start, end, chunk_size) ==
    LET end1 == IF end # 0 THEN end ELSE Len(content)
    IN  nextcloud_chunks(content, start, end1 - start + 1, chunk_size)

\* body.iter_chunks() over the bytes the bucket answers with
RECURSIVE iter_chunks(_, _)
iter_chunks(body, chunk_size) ==
    IF body = <<>> THEN <<>>
    ELSE LET k == IF chunk_size < Len(body) THEN chunk_size ELSE Len(body)
         IN  <<SubSeq(body, 1, k)>>
                \o iter_chunks(SubSeq(body, k + 1, Len(body)), chunk_size)

\* S3StorageBackend.stream_file: get_object with Range "bytes=start-end",
\* which the bucket answers with the bytes start..end of the object
S3StorageBackend_stream_file(content, start, end, chunk_size) ==
    LET hi == IF end < Len(content) - 1 THEN end ELSE Len(content) - 1
    IN  iter_chunks(SubSeq(content, start + 1, hi + 1), chunk_size)

StorageBackends == {"local", "s3", "nextcloud"}

\* the end of a Range header "bytes=start-" (group 2 is empty)
NoEnd == -1

\* the Range branch of FilesRouter.retrieve_item for a header the pattern
\* bytes=(\d+)-(\d*) matched, on a file of file_size bytes: the response
\* and the range asked of the backend
retrieve_range(file_size, start, range_end) ==
    LET end == IF range_end # NoEnd THEN range_end ELSE file_size - 1
    IN  IF start >= file_size \/ end >= file_size
        THEN [status |-> 416,
              content_range |-> <<"bytes", "*", file_size>>,
              content_length |-> 0, requested |-> <<>>]
        ELSE [status |-> 206,
              content_range |-> <<"bytes", start, end, file_size>>,
              content_length |-> end - start + 1,
              requested |-> <<start, end>>]

\* a call of stream_file on a backend that stores content_of(n)
stream_file(b, n, start, end, chunk_size) ==
    /\ last' = Call("stream_file", 0, NoUser, <<b, n, start, end, chunk_size>>,
                    NoError,
                    CASE b = "local" ->
                            LocalStorageBackend_stream_file(content_of(n),
                                start, end, chunk_size)
                      [] b = "nextcloud" ->
                            NextCloudStorageBackend_stream_file(content_of(n),
                                start, end, chunk_size)
                      [] b = "s3" ->
                            S3StorageBackend_stream_file(content_of(n),
                                start, end, chunk_size))
    /\ UNCHANGED loaded
    /\ snap' = NoSnap
    /\ UNCHANGED <<files, recency, objects, backend, nextUid>>

\* GET /f/{uid} with a Range header on a file of file_size bytes
retrieve_item(file_size, start, range_end) ==
    /\ last' = Call("retrieve_range", 0, NoUser,
                    <<file_size, start, range_end>>, NoError,
                    retrieve_range(file_size, start, range_end))
    /\ UNCHANGED loaded
    /\ snap' = NoSnap
    /\ UNCHANGED <<files, recency, objects, backend, nextUid>>

\* ------------------------------------------ SpecStream: reads of a range
NextStream ==
    \/ \E b \in StorageBackends, n \in 1 .. MaxSize, chunk_size \in 1 .. MaxChunk :
          \E start \in 0 .. n - 1 : \E end \in start .. n - 1 :
             stream_file(b, n, start, end, chunk_size)
    \/ \E n \in 0 .. MaxSize, start \in 0 .. MaxSize,
          range_end \in {NoEnd} \cup 0 .. MaxSize :
          retrieve_item(n, start, range_end)

SpecStream == Init /\ [][NextStream]_vars

\* ------------------------------------------------ encryption of a stream
\* os.urandom(16): the length of the IV, the block size of AES
IvLen == 16

\* AES-CTR as a running cipher: the keystream byte at a position depends on
\* the key, the IV and the position; encryptor.update and decryptor.update
\* go on from the position the previous call ended at
keystream(key, iv, pos) == (key + iv[1] + 2 * iv[IvLen] + pos) % (MaxByte + 1)

encryptor_update(key, iv, pos, chunk) ==
    [i \in 1 .. Len(chunk) |->
        (chunk[i] + keystream(key, iv, pos + i)) % (MaxByte + 1)]

decryptor_update(key, iv, pos, chunk) ==
    [i \in 1 .. Len(chunk) |->
        (chunk[i] + (MaxByte + 1) - keystream(key, iv, pos + i)) % (MaxByte + 1)]

RECURSIVE encrypt_chunks(_, _, _, _)
encrypt_chunks(key, iv, pos, chunks) ==
    IF chunks = <<>> THEN <<>>
    ELSE <<encryptor_update(key, iv, pos, Head(chunks))>>
         \o encrypt_chunks(key, iv, pos + Len(Head(chunks)), Tail(chunks))

RECURSIVE decrypt_chunks(_, _, _, _)
decrypt_chunks(key, iv, pos, chunks) ==
    IF chunks = <<>> THEN <<>>
    ELSE <<decryptor_update(key, iv, pos, Head(chunks))>>
         \o decrypt_chunks(key, iv, pos + Len(Head(chunks)), Tail(chunks))

\* EncryptionService.stream_and_encrypt and services.stream_from_s3_and_encrypt:
\* the IV, then one encrypted chunk per chunk of the backend's stream
\* (finalize of CTR yields nothing)
stream_and_encrypt(key, iv, chunks) ==
    <<iv>> \o encrypt_chunks(key, iv, 0, chunks)

\* EncryptionService.decrypt_stream and services.decrypt_stream: the first
\* chunk is taken as the IV, and modes.CTR rejects a nonce that is not one
\* block long when the cipher is built
decrypt_stream(key, encrypted_stream) ==
    LET iv == Head(encrypted_stream)
    IN  IF Len(iv) # IvLen
        THEN [error |-> "ValueError", chunks |-> <<>>]
        ELSE [error |-> NoError,
              chunks |-> decrypt_chunks(key, iv, 0, Tail(encrypted_stream))]

\* the bytes cut into chunks after the positions in cuts
RECURSIVE Split(_, _, _)
Split(bytes, from, cuts) ==
    IF cuts = {} THEN <<SubSeq(bytes, from + 1, Len(bytes))>>
    ELSE LET c == CHOOSE x \in cuts : \A y \in cuts : x <= y
         IN  <<SubSeq(bytes, from + 1, c)>> \o Split(bytes, c, cuts \ {c})

Ivs == {[i \in 1 .. IvLen |-> IF i = IvLen THEN v ELSE w] : v, w \in {0, 1}}
PlainStreams ==
    {<<>>, <<<<1>>>>, <<<<1, 2>>>>, <<<<1>>, <<2>>>>, <<<<1, 2>>, <<3>>>>,
     <<<<0>>, <<1, 2>>>>}

\* a stream encrypted for a key; args keeps the key and the plaintext chunks
encrypt(key, iv, chunks) ==
    /\ last' = Call("encrypt", 0, NoUser, <<key, chunks>>, NoError,
                    stream_and_encrypt(key, iv, chunks))
    /\ UNCHANGED loaded
    /\ snap' = NoSnap
    /\ UNCHANGED <<files, recency, objects, backend, nextUid>>

\* the encrypted bytes arrive in other chunks than they were produced in
rechunk(cuts) ==
    /\ last.op = "encrypt"
    /\ last' = Call("rechunk", 0, NoUser, last.args, NoError,
                    Split(Concat(last.ret), 0, cuts))
    /\ UNCHANGED loaded
    /\ snap' = NoSnap
    /\ UNCHANGED <<files, recency, objects, backend, nextUid>>

\* decrypt_stream over the stream as it arrived, with the key it was
\* encrypted for
decrypt ==
    /\ last.op \in {"encrypt", "rechunk"}
    /\ LET r == decrypt_stream(last.args[1], last.ret)
       IN  last' = Call("decrypt", 0, NoUser,
                        <<last.args[1], last.args[2], last.ret>>,
                        r.error, r.chunks)
    /\ UNCHANGED loaded
    /\ snap' = NoSnap
    /\ UNCHANGED <<files, recency, objects, backend, nextUid>>

\* --------------------------------- SpecCrypt: encrypt, re-chunk, decrypt
NextCrypt ==
    \/ \E key \in {0, 1}, iv \in Ivs, chunks \in PlainStreams :
          encrypt(key, iv, chunks)
    \/ /\ last.op = "encrypt"
       /\ \E cuts \in SUBSET (1 .. Len(Concat(last.ret)) - 1) :
             /\ Cardinality(cuts) <= MaxCuts
             /\ rechunk(cuts)
    \/ decrypt

SpecCrypt == Init /\ [][NextCrypt]_vars

\* ------------------------------------ requests that work on a loaded copy
\* A route loads the document (get_file) and later calls its methods; every
\* await between the two lets other requests run, and the methods read
\* is_deleted and the other fields from the loaded copy, not from the store.
Requests == 1 .. MaxRequests

\* FileMetaData.delete on a loaded document; the children of a directory are
\* listed from the store when the call runs
FileMetaData_delete_self(st, uid, self, user_id) ==
    IF ~p_delete(user_permission(self, user_id))
    THEN Raise(st, "PermissionError")
    ELSE
    LET listed == IF self.is_directory
                  THEN list_files(st.files, st.recency, user_id,
                           [ListQuery EXCEPT !.parent_id = uid,
                                             !.is_deleted = self.is_deleted])
                  ELSE <<>>
        st1 == delete_each(st, listed, user_id)
    IN  IF st1.error # NoError THEN st1
        ELSE IF ~self.is_deleted
        THEN save(st1, uid, [self EXCEPT !.is_deleted = TRUE,
                                         !.deleted_at = SET])
        ELSE LET st2 == remove(st1, uid)
             IN  IF /\ count_s3_key(st2.files, self.s3_key) = 0
                    /\ self.s3_key \in st2.objects
                 THEN ObjectMetaData_delete(st2, self.s3_key)
                 ELSE st2

\* FileMetaData.restore on a loaded document
FileMetaData_restore_self(st, uid, self, user_id) ==
    IF ~p_delete(user_permission(self, user_id))
    THEN Raise(st, "PermissionError")
    ELSE
    LET listed == IF self.is_directory
                  THEN list_files(st.files, st.recency, user_id,
                           [ListQuery EXCEPT !.parent_id = uid,
                                             !.is_deleted = TRUE])
                  ELSE <<>>
        st1 == restore_each(st, listed, user_id)
    IN  IF st1.error # NoError THEN st1
        ELSE IF self.is_deleted
        THEN save(st1, uid, [self EXCEPT !.is_deleted = FALSE,
                                         !.deleted_at = NULL])
        ELSE st1

\* `file = await self.get_file(request, uid, business)': request r holds a
\* copy of the row as it is now
load_item(r, op, uid, user_id) ==
    /\ r \notin DOMAIN loaded
    /\ get_file(uid, user_id) = NoError
    /\ loaded' = [q \in DOMAIN loaded \cup {r} |->
                     IF q = r
                     THEN [op |-> op, uid |-> uid, user_id |-> user_id,
                           self |-> files[uid]]
                     ELSE loaded[q]]
    /\ last' = Call("load", uid, user_id, <<op>>, NoError, 0)
    /\ snap' = NoSnap
    /\ UNCHANGED <<files, recency, objects, backend, nextUid>>

\* worker.remove_deleted_files / remove_old_access_files: `files = await
\* FileMetaData.find(...).to_list()', then `await file.delete(file.user_id)'
\* for each; which rows are thirty days old is left open
worker_load(r, uid) ==
    /\ r \notin DOMAIN loaded
    /\ uid \in DOMAIN files
    /\ ~files[uid].is_directory
    /\ loaded' = [q \in DOMAIN loaded \cup {r} |->
                     IF q = r
                     THEN [op |-> "delete", uid |-> uid,
                           user_id |-> files[uid].user_id,
                           self |-> files[uid]]
                     ELSE loaded[q]]
    /\ last' = Call("worker_load", uid, files[uid].user_id, <<"delete">>,
                    NoError, 0)
    /\ snap' = NoSnap
    /\ UNCHANGED <<files, recency, objects, backend, nextUid>>

\* the rest of the handler of request r, on its copy:
\*   delete    delete_item / the worker: file.delete(user_id)
\*   restore   update_item with is_deleted=false: item.restore, item.save
\*   rename    update_item with filename: item.filename = ..., item.save
\*   retrieve  retrieve_item: file.access_at = now, file.save
\* args records the copy's is_deleted and whether the row was stored, and
\* soft-deleted, when the step ran
complete(r) ==
    /\ r \in DOMAIN loaded
    /\ LET q == loaded[r]
           self == q.self
           restored == IF self.is_deleted
                       THEN [self EXCEPT !.is_deleted = FALSE,
                                         !.deleted_at = NULL]
                       ELSE self
           st == CASE q.op = "delete" ->
                        IF ~p_delete(user_permission(self, q.user_id))
                        THEN Raise(Store, "403")
                        ELSE FileMetaData_delete_self(Store, q.uid, self,
                                                      q.user_id)
                   [] q.op = "restore" ->
                        IF ~p_manage(user_permission(self, q.user_id))
                        THEN Raise(Store, "403")
                        ELSE LET st1 == FileMetaData_restore_self(Store,
                                            q.uid, self, q.user_id)
                             IN  IF st1.error # NoError THEN st1
                                 ELSE save(st1, q.uid, restored)
                   [] q.op = "rename" ->
                        IF ~p_write(user_permission(self, q.user_id))
                        THEN Raise(Store, "403")
                        ELSE save(Store, q.uid,
                                  [self EXCEPT !.filename = "copy.txt"])
                   [] q.op = "retrieve" ->
                        IF self.is_directory THEN Store
                        ELSE save(Store, q.uid, self)
       IN  /\ Commit([st EXCEPT !.error = NoError])
           /\ last' = Call(q.op \o "_loaded", q.uid, q.user_id,
                           <<self.is_deleted, q.uid \in DOMAIN files,
                             q.uid \in DOMAIN files /\ files[q.uid].is_deleted>>,
                           st.error, 0)
    /\ loaded' = [q \in DOMAIN loaded \ {r} |-> loaded[q]]
    /\ snap' = NoSnap
    /\ UNCHANGED nextUid

\* ------------------------- SpecRace: requests interleaved on the same row
\* u1 creates files; requests of u1 and the retention worker load a row and
\* finish later, in any order
NextRace ==
    \/ /\ nextUid <= MaxRaceFiles
       /\ create_item("u1", NoParent, FALSE, "notes.txt", <<>>, NONE)
    \/ \E r \in Requests, op \in {"delete", "restore", "rename", "retrieve"}, uid \in 1 .. MaxRaceFiles :
          load_item(r, op, uid, "u1")
    \/ \E r \in Requests, uid \in 1 .. MaxRaceFiles : worker_load(r, uid)
    \/ \E r \in Requests : complete(r)

SpecRace == Init /\ [][NextRace]_vars

\* --------------------------------------------------- moves and the tree
\* FileMetaData.list_files(user_id, file_id=...): the row, if the user may
\* read it; is_deleted is not looked at on this branch
list_files_by_id(fs, user_id, file_id) ==
    IF file_id \in DOMAIN fs /\ p_read(user_permission(fs[file_id], user_id))
    THEN <<file_id>> ELSE <<>>

\* FilesRouter.update_item with parent_id only (PATCH /f/{uid}): the new
\* parent has to be a directory the user may read
move_item(uid, user_id, parent_id) ==
    /\ parent_id # NoParent
    /\ LET existing == list_files_by_id(files, user_id, parent_id)
           err == IF get_file(uid, user_id) # NoError THEN "404"
                  ELSE IF ~p_write(user_permission(files[uid], user_id))
                  THEN "403"
                  ELSE IF existing = <<>> \/ ~files[existing[1]].is_directory
                  THEN "404"
                  ELSE NoError
       IN  /\ Commit(IF err = NoError
                     THEN save(Store, uid,
                               [files[uid] EXCEPT !.parent_id = parent_id])
                     ELSE Store)
           /\ last' = Call("move", uid, user_id, <<parent_id>>, err, uid)
    /\ UNCHANGED loaded
    /\ snap' = NoSnap
    /\ UNCHANGED nextUid

\* the node reached from u by following parent_id k times; null once a
\* parent_id is null or names no stored row
RECURSIVE Up(_, _, _)
Up(fs, u, k) ==
    IF u = NoParent \/ u \notin DOMAIN fs THEN NoParent
    ELSE IF k = 0 THEN u
    ELSE Up(fs, fs[u].parent_id, k - 1)

\* following parent_id from any row ends within as many steps as there are
\* rows
IsForest(fs) ==
    \A u \in DOMAIN fs : Up(fs, u, Cardinality(DOMAIN fs)) = NoParent

\* ------------------------------- SpecTree: parents chosen by the caller
\* u1 creates files and directories under any parent_id the request names:
\* none, the uid of a row created earlier, or a uid no row has; moves them,
\* and deletes and restores them. In a store where a directory is its own
\* ancestor the walk of delete and restore over the children need not end
\* (RecursionError); those calls are left out.
NextTree ==
    \/ /\ nextUid <= MaxTreeFiles
       /\ \E p \in 0 .. nextUid - 1 \cup {MaxTreeFiles + 1}, d \in BOOLEAN :
             create_item("u1", p, d, "notes.txt", <<>>, NONE)
    \/ \E uid \in 1 .. MaxTreeFiles, p \in 1 .. MaxTreeFiles + 1 :
          move_item(uid, "u1", p)
    \/ /\ IsForest(files)
       /\ \E uid \in 1 .. MaxTreeFiles : delete(uid, "u1")
    \/ /\ IsForest(files)
       /\ \E uid \in 1 .. MaxTreeFiles : restore(uid, "u1")

SpecTree == Init /\ [][NextTree]_vars

\* ------------------------------- the hard delete of a row, await by await
\* The second half of FileMetaData.delete with ObjectMetaData.delete inside:
\*   await super().delete()                                   hd_remove
\*   other_files = await self.find({s3_key}).count()          hd_count
\*   object_meta = await ObjectMetaData.find_one({s3_key})    hd_find
\*   other_files = await FileMetaData.find({s3_key}).count()  hd_ocount
\*   await delete_file_from_s3(self.s3_key)                   hd_s3delete
\*   await super().delete()                                   hd_odelete
\* loaded[r] holds the document, the place the request is at and whether its
\* delete_object call found no object.
Deleting(r, uid, self, pc, redundant) ==
    [q \in DOMAIN loaded \cup {r} |->
        IF q = r
        THEN [op |-> "hard_delete", uid |-> uid, user_id |-> self.user_id,
              self |-> self, pc |-> pc, redundant |-> redundant]
        ELSE loaded[q]]

At(r, pc) == r \in DOMAIN loaded /\ loaded[r].pc = pc

hd_remove(r, uid) ==
    /\ r \notin DOMAIN loaded
    /\ uid \in DOMAIN files
    /\ files[uid].is_deleted
    /\ ~files[uid].is_directory
    /\ \A q \in DOMAIN loaded : loaded[q].uid # uid
    /\ Commit(remove(Store, uid))
    /\ loaded' = Deleting(r, uid, files[uid], "count", FALSE)
    /\ last' = Call("hard_delete", uid, files[uid].user_id, <<"remove">>,
                    NoError, 0)
    /\ snap' = NoSnap
    /\ UNCHANGED nextUid

\* FileMetaData.delete: the object goes only when no row has the key
hd_count(r) ==
    /\ At(r, "count")
    /\ LET q == loaded[r]
       IN  /\ loaded' = Deleting(r, q.uid, q.self,
                           IF count_s3_key(files, q.self.s3_key) = 0
                           THEN "find" ELSE "done", FALSE)
           /\ last' = Call("hard_delete", q.uid, q.user_id, <<"count">>,
                           NoError, 0)
    /\ snap' = NoSnap
    /\ UNCHANGED <<files, recency, objects, backend, nextUid>>

\* a hard delete that leaves the ledger row and the object alone
hd_find_nothing(r) ==
    /\ At(r, "find")
    /\ LET q == loaded[r]
       IN  /\ loaded' = Deleting(r, q.uid, q.self, "done", FALSE)
           /\ last' = Call("hard_delete", q.uid, q.user_id, <<"find">>,
                           NoError, 0)
    /\ snap' = NoSnap
    /\ UNCHANGED <<files, recency, objects, backend, nextUid>>

hd_find(r) ==
    /\ At(r, "find")
    /\ LET q == loaded[r]
       IN  /\ loaded' = Deleting(r, q.uid, q.self,
                           IF q.self.s3_key \in objects
                           THEN "ocount" ELSE "done", FALSE)
           /\ last' = Call("hard_delete", q.uid, q.user_id, <<"find">>,
                           NoError, 0)
    /\ snap' = NoSnap
    /\ UNCHANGED <<files, recency, objects, backend, nextUid>>

\* ObjectMetaData.delete: `if other_files != 0: return'
hd_ocount(r) ==
    /\ At(r, "ocount")
    /\ LET q == loaded[r]
       IN  /\ loaded' = Deleting(r, q.uid, q.self,
                           IF count_s3_key(files, q.self.s3_key) # 0
                           THEN "done" ELSE "s3delete", FALSE)
           /\ last' = Call("hard_delete", q.uid, q.user_id, <<"ocount">>,
                           NoError, 0)
    /\ snap' = NoSnap
    /\ UNCHANGED <<files, recency, objects, backend, nextUid>>

\* delete_object succeeds whether or not the object is there
hd_s3delete(r) ==
    /\ At(r, "s3delete")
    /\ LET q == loaded[r]
       IN  /\ Commit(delete_file_from_s3(Store, q.self.s3_key))
           /\ loaded' = Deleting(r, q.uid, q.self, "odelete",
                                 q.self.s3_key \notin backend)
           /\ last' = Call("hard_delete", q.uid, q.user_id, <<"s3delete">>,
                           NoError, 0)
    /\ snap' = NoSnap
    /\ UNCHANGED nextUid

\* Document.delete of the ledger row: no error when it is already gone
hd_odelete(r) ==
    /\ At(r, "odelete")
    /\ LET q == loaded[r]
       IN  /\ Commit([Store EXCEPT !.objects = @ \ {q.self.s3_key}])
           /\ loaded' = Deleting(r, q.uid, q.self, "done", q.redundant)
           /\ last' = Call("hard_delete", q.uid, q.user_id, <<"odelete">>,
                           NoError, 0)
    /\ snap' = NoSnap
    /\ UNCHANGED nextUid

\* ------------------ SpecShared: hard deletes of rows that share an object
\* Both users upload the same content under either name (each upload gives a
\* row of its own with the same key) and soft-delete rows; then hard deletes
\* of distinct rows run interleaved, each request once.
NextShared ==
    \/ /\ loaded = <<>>
       /\ nextUid <= MaxSharedFiles
       /\ \E u \in Users, f \in Filenames :
             upload_file(u, NoParent, f, "c1", TRUE, "stored")
    \/ /\ loaded = <<>>
       /\ \E uid \in 1 .. MaxSharedFiles :
             /\ uid \in DOMAIN files
             /\ ~files[uid].is_deleted
             /\ delete(uid, files[uid].user_id)
    \/ \E r \in Requests, uid \in 1 .. MaxSharedFiles : hd_remove(r, uid)
    \/ \E r \in Requests : hd_count(r)
    \/ \E r \in Requests : hd_find(r)
    \/ \E r \in Requests : hd_ocount(r)
    \/ \E r \in Requests : hd_s3delete(r)
    \/ \E r \in Requests : hd_odelete(r)

SpecShared == Init /\ [][NextShared]_vars

\* ------------------------------------ the blocking upload, await by await
\* POST /upload with blocking=true through services.process_file:
\*   existing, _ = await FileMetaData.list_files(...)          up_list
\*   objects = await ObjectMetaData.find(...).to_list()        up_find
\*   await upload_to_s3(...)                                   up_write
\*   await obj.save()                                          up_osave
\*   await file_metadata.save()                                up_fsave
\* loaded[r].self is the record the request will save, loaded[r].uid the
\* existing row it got back from the duplicate check (0: a new record).
Uploading(r, uid, self, pc) ==
    [q \in DOMAIN loaded \cup {r} |->
        IF q = r
        THEN [op |-> "upload", uid |-> uid, user_id |-> self.user_id,
              self |-> self, pc |-> pc, redundant |-> FALSE]
        ELSE loaded[q]]

up_list(r, user_id, filename, c) ==
    /\ r \notin DOMAIN loaded
    /\ LET filehash == md5(c)
           existing == list_files(files, recency, user_id,
                           [ListQuery EXCEPT !.filehash = filehash,
                                             !.filename = filename])
           existed == first_with_parent(files, existing, NoParent)
       IN  /\ loaded' = IF existed # 0
                        THEN Uploading(r, existed, files[existed], "up_fsave")
                        ELSE Uploading(r, 0,
                                 UploadedFile(user_id, NoParent, filename,
                                     filehash, check_file(c).mime,
                                     check_file(c).size), "up_find")
           /\ last' = Call("upload_step", 0, user_id, <<"list">>, NoError, 0)
    /\ snap' = NoSnap
    /\ UNCHANGED <<files, recency, objects, backend, nextUid>>

\* manage_upload_to_s3: `if objects: return objects[0]'
up_find(r) ==
    /\ At(r, "up_find")
    /\ LET q == loaded[r]
       IN  /\ loaded' = Uploading(r, q.uid, q.self,
                           IF q.self.s3_key \in objects THEN "up_fsave"
                           ELSE "up_write")
           /\ last' = Call("upload_step", 0, q.user_id, <<"find">>, NoError, 0)
    /\ snap' = NoSnap
    /\ UNCHANGED <<files, recency, objects, backend, nextUid>>

up_write(r) ==
    /\ At(r, "up_write")
    /\ LET q == loaded[r]
       IN  /\ Commit(upload_to_s3(Store, q.self.s3_key, "stored"))
           /\ loaded' = Uploading(r, q.uid, q.self, "up_osave")
           /\ last' = Call("upload_step", 0, q.user_id, <<"write">>, NoError, 0)
    /\ snap' = NoSnap
    /\ UNCHANGED nextUid

\* the insert of the ObjectMetaData row; the collection has a unique index
\* on s3_key, so a second row for the key is refused and the request ends
\* with that error
up_osave(r) ==
    /\ At(r, "up_osave")
    /\ LET q == loaded[r]
           dup == q.self.s3_key \in objects
       IN  /\ Commit(IF dup THEN Store
                     ELSE [Store EXCEPT !.objects = @ \cup {q.self.s3_key}])
           /\ loaded' = Uploading(r, q.uid, q.self,
                                  IF dup THEN "error" ELSE "up_fsave")
           /\ last' = Call("upload_step", 0, q.user_id, <<"osave">>,
                           IF dup THEN "DuplicateKeyError" ELSE NoError, 0)
    /\ snap' = NoSnap
    /\ UNCHANGED nextUid

up_fsave(r) ==
    /\ At(r, "up_fsave")
    /\ LET q == loaded[r]
           uid == IF q.uid # 0 THEN q.uid ELSE nextUid
       IN  /\ Commit(save(Store, uid, q.self))
           /\ nextUid' = IF q.uid # 0 THEN nextUid ELSE nextUid + 1
           /\ loaded' = Uploading(r, uid, q.self, "done")
           /\ last' = Call("upload_step", uid, q.user_id, <<"fsave">>,
                           NoError, uid)
    /\ snap' = NoSnap

\* ------------- SpecUploadRace: uploads interleaved with uploads and deletes
\* Rows are set up by whole uploads and soft deletes while no request is in
\* flight; then each request is one upload of the same content or one hard
\* delete, interleaved await by await.
NextUploadRace ==
    \/ /\ loaded = <<>>
       /\ nextUid < MaxUploadRaceFiles
       /\ \E u \in Users : upload_file(u, NoParent, "notes.txt", "c1", TRUE,
                                       "stored")
    \/ /\ loaded = <<>>
       /\ \E uid \in 1 .. MaxUploadRaceFiles :
             /\ uid \in DOMAIN files
             /\ ~files[uid].is_deleted
             /\ delete(uid, files[uid].user_id)
    \/ /\ nextUid + Cardinality(DOMAIN loaded) <= MaxUploadRaceFiles
       /\ \E r \in Requests, u \in Users, f \in Filenames :
             up_list(r, u, f, "c1")
    \/ \E r \in Requests : up_find(r)
    \/ \E r \in Requests : up_write(r)
    \/ \E r \in Requests : up_osave(r)
    \/ \E r \in Requests : up_fsave(r)
    \/ \E r \in Requests, uid \in 1 .. MaxUploadRaceFiles : hd_remove(r, uid)
    \/ \E r \in Requests : hd_count(r)
    \/ \E r \in Requests : hd_find(r)
    \/ \E r \in Requests : hd_ocount(r)
    \/ \E r \in Requests : hd_s3delete(r)
    \/ \E r \in Requests : hd_odelete(r)

SpecUploadRace == Init /\ [][NextUploadRace]_vars

\* ------------------------------------------------------- multipart upload
\* S3StorageBackend._upload_multipart ("backend") and
\* services.upload_to_s3_multipart ("legacy"), one S3 call at a time.
\* loaded[r] holds the session the request created (open, completed or
\* aborted), the number of chunks the file reads as, the part numbers
\* uploaded so far and the parts handed to complete_multipart_upload.
CallOutcomes == {"ok", "raises"}

\* `while True: chunk = file_bytes.read(chunk_size); if not chunk: break'
chunks_of(size, chunk_size) == (size + chunk_size - 1) \div chunk_size

InFlight(r, q) == [x \in DOMAIN loaded \cup {r} |-> IF x = r THEN q ELSE loaded[x]]

\* what the code does when an S3 call raises inside the loop or at
\* completion: the backend's `except' goes on to abort, the legacy function
\* has no handler and the exception leaves it
mp_raised(impl) == IF impl = "backend" THEN "abort" ELSE "error"

\* create_multipart_upload
mp_create(r, impl, size, chunk_size) ==
    /\ r \notin DOMAIN loaded
    /\ loaded' = InFlight(r, [op |-> "multipart", impl |-> impl,
                     pc |-> "part", session |-> "open",
                     chunks |-> chunks_of(size, chunk_size),
                     parts |-> <<>>, completed_with |-> <<>>])
    /\ last' = Call("multipart", 0, NoUser, <<"create", impl>>, NoError, 0)
    /\ snap' = NoSnap
    /\ UNCHANGED <<files, recency, objects, backend, nextUid>>

\* upload_part with the next part number, while chunks are left
mp_part(r, outcome) ==
    /\ At(r, "part")
    /\ LET q == loaded[r]
       IN  /\ Len(q.parts) < q.chunks
           /\ loaded' = InFlight(r,
                 IF outcome = "ok"
                 THEN [q EXCEPT !.parts = Append(@, Len(@) + 1)]
                 ELSE [q EXCEPT !.pc = mp_raised(q.impl)])
           /\ last' = Call("multipart", 0, NoUser, <<"part", q.impl>>,
                           IF outcome = "ok" THEN NoError ELSE "ClientError", 0)
    /\ snap' = NoSnap
    /\ UNCHANGED <<files, recency, objects, backend, nextUid>>

\* complete_multipart_upload with the parts collected
mp_complete(r, outcome) ==
    /\ At(r, "part")
    /\ LET q == loaded[r]
       IN  /\ Len(q.parts) = q.chunks
           /\ loaded' = InFlight(r,
                 IF outcome = "ok"
                 THEN [q EXCEPT !.pc = "done", !.session = "completed",
                                !.completed_with = q.parts]
                 ELSE [q EXCEPT !.pc = mp_raised(q.impl)])
           /\ last' = Call("multipart", 0, NoUser, <<"complete", q.impl>>,
                           IF outcome = "ok" THEN NoError ELSE "ClientError", 0)
    /\ snap' = NoSnap
    /\ UNCHANGED <<files, recency, objects, backend, nextUid>>

\* abort_multipart_upload, then `raise'
mp_abort(r) ==
    /\ At(r, "abort")
    /\ loaded' = InFlight(r, [loaded[r] EXCEPT !.pc = "error",
                                                !.session = "aborted"])
    /\ last' = Call("multipart", 0, NoUser, <<"abort", loaded[r].impl>>,
                    "ClientError", 0)
    /\ snap' = NoSnap
    /\ UNCHANGED <<files, recency, objects, backend, nextUid>>

\* ------------------------ SpecMultipart: multipart uploads with S3 failures
NextMultipart ==
    \/ \E r \in Requests, impl \in {"backend", "legacy"}, size \in 1 .. MaxSize,
          chunk_size \in 1 .. MaxChunk : mp_create(r, impl, size, chunk_size)
    \/ \E r \in Requests, outcome \in CallOutcomes : mp_part(r, outcome)
    \/ \E r \in Requests, outcome \in CallOutcomes : mp_complete(r, outcome)
    \/ \E r \in Requests : mp_abort(r)

SpecMultipart == Init /\ [][NextMultipart]_vars

\* ----------------------------------- path resolution, await by await
\* The loop of FileMetaData.get_path with create=True, as the upload of a
\* filename with "/" runs it: for each directory segment
\*   files, _ = await cls.list_files(filename=part, parent_id=parent_id, ...)
\*   files = [await cls.create_directory(...)]      when none was listed
\* loaded[r] holds the path, the segments still to resolve and the parent_id
\* reached.
\* the request moves on to the next segment, or is done after the last
gp_advance(q, parent_id) ==
    [q EXCEPT !.parent_id = parent_id, !.dirs = Tail(@),
              !.pc = IF Len(q.dirs) = 1 THEN "done" ELSE "list"]

gp_start(r, user_id, parts) ==
    /\ r \notin DOMAIN loaded
    /\ loaded' = InFlight(r, [op |-> "get_path", user_id |-> user_id,
                     parts |-> parts,
                     dirs |-> SubSeq(parts, 1, Len(parts) - 1),
                     parent_id |-> NoParent, pc |-> "list"])
    /\ last' = Call("get_path_step", 0, user_id, <<"start", parts>>, NoError, 0)
    /\ snap' = NoSnap
    /\ UNCHANGED <<files, recency, objects, backend, nextUid>>

gp_list(r) ==
    /\ At(r, "list")
    /\ LET q == loaded[r]
           found == list_files(files, recency, q.user_id,
                        [ListQuery EXCEPT !.filename = Head(q.dirs),
                                          !.is_directory = "yes",
                                          !.parent_id = q.parent_id])
       IN  /\ loaded' = InFlight(r, IF found # <<>>
                                     THEN gp_advance(q, found[1])
                                     ELSE [q EXCEPT !.pc = "create"])
           /\ last' = Call("get_path_step", 0, q.user_id, <<"list", q.parts>>,
                           NoError, 0)
    /\ snap' = NoSnap
    /\ UNCHANGED <<files, recency, objects, backend, nextUid>>

gp_create(r) ==
    /\ At(r, "create")
    /\ LET q == loaded[r]
       IN  /\ Commit(create_directory(Store, nextUid, q.user_id, Head(q.dirs),
                                      q.parent_id))
           /\ loaded' = InFlight(r, gp_advance(q, nextUid))
           /\ last' = Call("get_path_step", nextUid, q.user_id,
                           <<"create", q.parts>>, NoError, nextUid)
    /\ nextUid' = nextUid + 1
    /\ snap' = NoSnap

\* --------------- SpecPathRace: two uploads resolving paths at the same time
NextPathRace ==
    \/ \E r \in Requests, parts \in Paths : gp_start(r, "u1", parts)
    \/ \E r \in Requests : gp_list(r)
    \/ /\ nextUid <= MaxPathRaceFiles
       /\ \E r \in Requests : gp_create(r)

SpecPathRace == Init /\ [][NextPathRace]_vars

\* =================================================================== claims
Children(fs, uid) == {u \in DOMAIN fs : fs[u].parent_id = uid}

RECURSIVE Descendants(_, _)
Descendants(fs, uid) ==
    LET ch == Children(fs, uid)
    IN  ch \cup UNION {Descendants(fs, c) : c \in ch}

DeleteOps == {"delete", "restore"}

\* C1: a FileMetaData.delete call (the code's only path to a hard delete) on
\* a row that is not soft-deleted ends in InvalidState and leaves the rows,
\* the ledger and the backend as they were.
C1_HardDeletePrecondition ==
    [][(last'.op = "delete" /\ last'.args = <<FALSE>>)
          => /\ last'.result = "InvalidState"
             /\ files' = files
             /\ objects' = objects
             /\ backend' = backend]_vars

\* C2: after the owner's soft delete of a directory every descendant has
\* is_deleted = TRUE, and after the owner's restore of a directory every
\* descendant has is_deleted = FALSE, however many children there are.
C2_DirectoryCascade ==
    (/\ last.op \in DeleteOps
     /\ last.result = NoError
     /\ last.uid \in DOMAIN files
     /\ files[last.uid].is_directory
     /\ last.user_id = files[last.uid].user_id)
    => \A d \in Descendants(files, last.uid) :
          files[d].is_deleted = (last.op = "delete")

\* C3: a restore that directly follows the soft delete of the same row by
\* the same user leaves is_deleted and deleted_at of the row and of every
\* descendant as they were before the soft delete.
C3_SoftDeleteReversible ==
    (last.op = "restore" /\ last.result = NoError /\ snap # NoSnap)
    => \A u \in {last.uid} \cup Descendants(files, last.uid) :
          Flags(files)[u] = snap[u]

\* C4: a step of upload, delete, restore or an ObjectMetaData delete call
\* removes the backend object or the ledger row of a key only if no
\* FileMetaData row has that key afterwards.
C4_ReferenceCountedDeletion ==
    [][(last'.op \in {"upload", "delete", "restore", "object_delete",
                      "delete_s3_key"})
          => \A k \in backend \cup objects :
                (\/ (k \in backend /\ k \notin backend')
                 \/ (k \in objects /\ k \notin objects'))
                => count_s3_key(files', k) = 0]_vars

\* C5: when change_content with overwrite=true removes the old backend
\* object, no FileMetaData row has the old key afterwards and the ledger
\* row of the old key is gone too.
C5_OverwriteThroughLedger ==
    [][(/\ last'.op = "change_file" /\ last'.result = NoError
        /\ last'.args[1] /\ last'.ret = last'.uid
        /\ last'.args[2] \in backend /\ last'.args[2] \notin backend')
          => /\ count_s3_key(files', last'.args[2]) = 0
             /\ last'.args[2] \notin objects']_vars

\* C6: an upload that directly follows an upload of the same bytes to the
\* same parent by the same user returns the same uid, adds no row, leaves
\* the stored filename alone, and the content's key has its ledger row.
C6_IdempotentDedup ==
    [][(/\ last.op = "upload" /\ last'.op = "upload"
        /\ last'.user_id = last.user_id
        /\ last'.args[1] = last.args[1]
        /\ last'.args[3] = last.args[3])
          => /\ last'.ret = last.ret
             /\ DOMAIN files' = DOMAIN files
             /\ files'[last.ret].filename = files[last.ret].filename
             /\ s3_key_of(md5(last'.args[3])) \in objects']_vars

\* C7: the record an upload returns is owned by the uploading user.
C7_DedupScopedToOwner ==
    last.op = "upload" => files[last.ret].user_id = last.user_id

\* C8: user_permission called with the row's owner returns OWNER, whatever
\* the ACL and public_permission hold; and it does so for every stored row.
C8_OwnerOverride ==
    /\ (last.op = "user_permission" /\ last.user_id = files[last.uid].user_id)
          => last.ret = OWNER
    /\ \A u \in DOMAIN files : user_permission(files[u], files[u].user_id) = OWNER

\* C8 witness: user_permission has answered for the owner of a row whose ACL
\* holds an entry for the owner and whose public_permission was updated.
C8_Witness ==
    /\ last.op = "user_permission"
    /\ last.user_id = files[last.uid].user_id
    /\ last.ret = OWNER
    /\ files[last.uid].public_permission = READ
    /\ \E i \in 1 .. Len(files[last.uid].permissions) :
          /\ files[last.uid].permissions[i].user_id = last.user_id
          /\ files[last.uid].permissions[i].permission = READ

\* C9: for a user other than the owner user_permission returns the level of
\* the first ACL entry with that user_id, public_permission when there is
\* none, and public_permission for the anonymous user.
C9_AclThenPublic ==
    (last.op = "user_permission" /\ last.user_id # files[last.uid].user_id)
    => LET self == files[last.uid]
           n == Len(self.permissions)
       IN  IF last.user_id = NoUser THEN last.ret = self.public_permission
           ELSE IF \E i \in 1 .. n : self.permissions[i].user_id = last.user_id
           THEN \E i \in 1 .. n :
                   /\ self.permissions[i].user_id = last.user_id
                   /\ \A j \in 1 .. i - 1 :
                         self.permissions[j].user_id # last.user_id
                   /\ last.ret = self.permissions[i].permission
           ELSE last.ret = self.public_permission

\* C9 witness: user_permission has answered DELETE, from the ACL, for a user
\* who is not the owner, on a row whose public_permission is READ.
C9_Witness ==
    /\ last.op = "user_permission"
    /\ last.user_id \in Users
    /\ last.user_id # files[last.uid].user_id
    /\ files[last.uid].public_permission = READ
    /\ last.ret = DELETE

\* C10: a delete or restore call by a user below DELETE on the row ends in
\* PermissionError, and a call that ends in PermissionError leaves
\* is_deleted and deleted_at of every row as they were.
C10_DeleteNeedsPermission ==
    [][(last'.op \in DeleteOps)
          => /\ ~p_delete(user_permission(files[last'.uid], last'.user_id))
                   => last'.result = "PermissionError"
             /\ last'.result = "PermissionError"
                   => Flags(files') = Flags(files)]_vars

\* C11: a FileMetaData.delete call on a row that is already soft-deleted
\* changes nothing: the row stays, with is_deleted = TRUE, and the ledger and
\* the backend are as they were.
C11_SoftDeleteIdempotent ==
    [][(last'.op = "delete" /\ last'.args = <<TRUE>>
        /\ last'.result = NoError)
          => /\ last'.uid \in DOMAIN files'
             /\ files' = files
             /\ objects' = objects
             /\ backend' = backend]_vars


\* C12: when process_file of services.py is called with blocking = TRUE and
\* the write either stores the object or raises, a call that returns a
\* record returns one whose storage key is in the backend and has its ledger
\* row, and a call that fails returns no record.
C12_BlockingUploadCompleted ==
    (/\ last.op = "upload"
     /\ last.args[4]
     /\ last.args[5] \in {"stored", "raises"})
    => IF last.result = NoError
       THEN /\ last.ret \in DOMAIN files
            /\ files[last.ret].s3_key \in backend
            /\ files[last.ret].s3_key \in objects
       ELSE last.ret = 0

\* C13: when FileManager.process_file writes a key that no row and no ledger
\* row names and the object is absent after the write, the call ends in
\* upload_failed, returns no record, and leaves no ledger row and no
\* FileMetaData row for the key, whether blocking or not.
C13_UploadVerification ==
    [][(/\ last'.op = "upload_fm"
        /\ last'.args[5] = "absent"
        /\ s3_key_of(md5(last'.args[3])) \notin objects
        /\ count_s3_key(files, s3_key_of(md5(last'.args[3]))) = 0)
          => /\ last'.result = "upload_failed"
             /\ last'.ret = 0
             /\ s3_key_of(md5(last'.args[3])) \notin objects'
             /\ count_s3_key(files', s3_key_of(md5(last'.args[3]))) = 0]_vars


C15_RangeCorrect ==
    last.op = "stream_file"
    => Concat(last.ret) =
          SubSeq(content_of(last.args[2]), last.args[3] + 1, last.args[4] + 1)

\* C16: the Range branch answers 416 with Content-Range bytes */n when start
\* or end is not below n, and otherwise 206 with Content-Range
\* bytes start-end/n and a Content-Length of end-start+1 that is at least 1
\* and is the number of bytes asked of the backend; an omitted end is n-1.
C16_RangeResponse ==
    last.op = "retrieve_range"
    => LET n == last.args[1]
           start == last.args[2]
           end == IF last.args[3] = NoEnd THEN n - 1 ELSE last.args[3]
           r == last.ret
       IN  IF start >= n \/ end >= n
           THEN r.status = 416 /\ r.content_range = <<"bytes", "*", n>>
           ELSE /\ r.status = 206
                /\ r.content_range = <<"bytes", start, end, n>>
                /\ r.content_length = end - start + 1
                /\ r.content_length >= 1
                /\ r.requested = <<start, end>>
                /\ r.requested[2] - r.requested[1] + 1 = r.content_length


\* the chain of parent_ids from pid spells dirs from its last name to its
\* first and then ends at P, through non-deleted directories of user_id
RECURSIVE Spells(_, _, _, _, _)
Spells(fs, pid, dirs, P, user_id) ==
    IF dirs = <<>> THEN pid = P
    ELSE /\ pid \in DOMAIN fs
         /\ fs[pid].is_directory
         /\ ~fs[pid].is_deleted
         /\ fs[pid].user_id = user_id
         /\ fs[pid].filename = dirs[Len(dirs)]
         /\ Spells(fs, fs[pid].parent_id, SubSeq(dirs, 1, Len(dirs) - 1),
                   P, user_id)

\* C17: get_path on d1/.../dk/leaf from parent P returns leaf and a parent_id
\* whose chain of parents spells dk, ..., d1 and then P; with create = FALSE
\* no row is created, and a call that fails is a not-found of create = FALSE
\* that changed nothing; with create = TRUE the call does not fail.
C17_PathResolution ==
    [][(last'.op = "get_path")
          => LET parts == last'.args[1]
                 P == last'.args[2]
                 create == last'.args[3]
             IN  /\ last'.result = NoError
                    => /\ last'.ret[2] = parts[Len(parts)]
                       /\ Spells(files', last'.ret[1],
                                 SubSeq(parts, 1, Len(parts) - 1), P,
                                 last'.user_id)
                 /\ last'.result # NoError
                    => /\ last'.result = "FileNotFoundError"
                       /\ ~create
                 /\ ~create => files' = files]_vars


\* the visibility rule: the user is the owner, or holds an ACL entry of at
\* least READ, or the row's public_permission is at least READ
Visible(f, user_id) ==
    \/ (user_id # NoUser /\ f.user_id = user_id)
    \/ \E i \in 1 .. Len(f.permissions) :
          /\ user_id # NoUser
          /\ f.permissions[i].user_id = user_id
          /\ f.permissions[i].permission >= READ
    \/ f.public_permission >= READ

\* C18: a list_files call with the default filters returns exactly the rows
\* at the root that are not deleted and are visible to the caller.
C18_ListVisibility ==
    last.op = "list_files"
    => {last.ret[i] : i \in 1 .. Len(last.ret)}
          = {u \in DOMAIN files : /\ files[u].parent_id = NoParent
                                  /\ ~files[u].is_deleted
                                  /\ Visible(files[u], last.user_id)}


\* C19: when the caller's permission on an existing row is below READ, the
\* retrieve, download and delete routes answer exactly what they answer on
\* the store without that row and change nothing: a 404, or the 401 of a
\* delete request that carries no user; and a 403 goes only to a caller who
\* holds READ on the row.
C19_NoExistenceLeak ==
    [][(last'.op \in Entrypoints /\ last'.uid \in DOMAIN files)
          => LET level == user_permission(files[last'.uid], last'.user_id)
                 without == [u \in DOMAIN files \ {last'.uid} |-> files[u]]
             IN  /\ ~p_read(level)
                    => /\ last'.result
                             = Response(last'.op, without, last'.uid,
                                        last'.user_id, last'.args[1])
                       /\ last'.result \in {"404", "401"}
                       /\ last'.result = "401"
                             => last'.op = "delete_item"
                                /\ last'.user_id = NoUser
                       /\ UNCHANGED <<files, recency, objects, backend>>
                 /\ last'.result = "403" => p_read(level)]_vars

\* C19 witness: the delete route has answered 404 to a signed-in user for a
\* row that exists and on which the user is below READ.
C19_Witness ==
    /\ last.op = "delete_item"
    /\ last.user_id \in Users
    /\ last.uid \in DOMAIN files
    /\ ~p_read(user_permission(files[last.uid], last.user_id))
    /\ last.result = "404"

\* positions of the ACL entries of one user
EntriesOf(acl, user_id) == {i \in 1 .. Len(acl) : acl[i].user_id = user_id}

\* the ACL entries of everybody else, in order
OthersOf(acl, user_id) ==
    LET other(e) == e.user_id # user_id IN SelectSeq(acl, other)

\* C20: after an update that sets one permission for a user who is not the
\* owner, the row's ACL holds exactly one entry for that user, with the new
\* level; the entries of other users are as before, public_permission is as
\* before unless the update carries one, and user_permission of that user is
\* the new level.
C20_SetPermission ==
    [][(/\ last'.op = "update"
        /\ last'.result = NoError
        /\ Len(last'.args[2]) = 1
        /\ last'.args[2][1].user_id # files[last'.uid].user_id)
          => LET p == last'.args[2][1]
                 before == files[last'.uid]
                 after == files'[last'.uid]
             IN  /\ Cardinality(EntriesOf(after.permissions, p.user_id)) = 1
                 /\ \A i \in EntriesOf(after.permissions, p.user_id) :
                       after.permissions[i].permission = p.permission
                 /\ OthersOf(after.permissions, p.user_id)
                       = OthersOf(before.permissions, p.user_id)
                 /\ last'.args[1] = NoLevel
                       => after.public_permission = before.public_permission
                 /\ user_permission(after, p.user_id) = p.permission]_vars


\* C21: decrypt_stream over the output of stream_and_encrypt, with the same
\* key, succeeds and yields the original bytes, however the encrypted bytes
\* were cut into chunks on the way.
C21_EncryptionRoundTrip ==
    last.op = "decrypt"
        => /\ last.result = NoError
           /\ Concat(last.ret) = Concat(last.args[2])


\* C22: a delete call on a document that is not soft-deleted removes no row,
\* and whenever a row leaves the store, the stored row was soft-deleted just
\* before; in every interleaving of the requests and the worker.
C22_TwoPhaseDelete ==
    [][/\ \A u \in DOMAIN files \ DOMAIN files' : files[u].is_deleted
       /\ (last'.op = "delete_loaded" /\ ~last'.args[1])
             => DOMAIN files \subseteq DOMAIN files']_vars


\* C23: a uid whose row has been removed by a hard delete never has a row
\* again, whatever the requests that loaded the row earlier go on to do.
C23_HardDeletedTerminal ==
    [][\A u \in 1 .. nextUid - 1 :
          u \notin DOMAIN files => u \notin DOMAIN files']_vars


\* C24: in every reachable state, the parent_id of every row is null or the
\* uid of a stored row that is a directory.
C24_ParentIntegrity ==
    \A u \in DOMAIN files :
        files[u].parent_id # NoParent
            => /\ files[u].parent_id \in DOMAIN files
               /\ files[files[u].parent_id].is_directory

\* C28: in every reachable state, following parent_id from any row ends
\* within as many steps as there are rows: no row is its own parent or its
\* own ancestor.
C28_Forest == IsForest(files)


\* the requests that hard-delete a row of the key, and those among them whose
\* delete_object call found no object
DeletersOf(key) == {r \in DOMAIN loaded : loaded[r].self.s3_key = key}
RedundantOf(key) == {r \in DeletersOf(key) : loaded[r].redundant}
ReferencedKeys == {files[u].s3_key : u \in DOMAIN files}

\* C25: while a row references a key, the key's object and ledger row stay;
\* once the interleaved hard deletes of the rows of a key are all done and no
\* row references it, its object and ledger row are gone; of the
\* delete_object calls all but one at most found nothing (one call for two
\* requests); no request ends in an error.
C25_ConcurrentHardDelete ==
    /\ \A key \in ReferencedKeys : key \in backend /\ key \in objects
    /\ \A r \in DOMAIN loaded :
          LET key == loaded[r].self.s3_key
          IN  /\ Cardinality(RedundantOf(key)) <= Cardinality(DeletersOf(key)) - 1
              /\ ((\A q \in DeletersOf(key) : loaded[q].pc = "done")
                     /\ key \notin ReferencedKeys)
                    => key \notin backend /\ key \notin objects
    /\ last.op = "hard_delete" => last.result = NoError

\* C25 witness: two hard deletes of rows sharing a key are done, both called
\* delete_object, and one of the two calls found nothing.
C25_Witness ==
    \E r, q \in DOMAIN loaded :
        /\ r # q
        /\ loaded[r].self.s3_key = loaded[q].self.s3_key
        /\ loaded[r].pc = "done" /\ loaded[q].pc = "done"
        /\ loaded[r].redundant /\ ~loaded[q].redundant
        /\ loaded[q].self.s3_key \notin backend


\* C26: when only uploads are in flight, each by another user, no upload ends
\* in an error, and the key of every upload that is done has a ledger row and
\* a backend object.
C26_ConcurrentUploads ==
    (/\ \A q \in DOMAIN loaded : loaded[q].op = "upload"
     /\ \A q, r \in DOMAIN loaded :
           q # r => loaded[q].user_id # loaded[r].user_id)
        => \A r \in DOMAIN loaded :
              /\ loaded[r].pc # "error"
              /\ loaded[r].pc = "done"
                    => /\ loaded[r].self.s3_key \in objects
                       /\ loaded[r].self.s3_key \in backend

\* C29: when an upload and a hard delete have run interleaved and both are
\* over, every stored row's key has a ledger row and a backend object.
C29_UploadVsHardDelete ==
    (/\ \E r \in DOMAIN loaded : loaded[r].op = "upload"
     /\ \E r \in DOMAIN loaded : loaded[r].op = "hard_delete"
     /\ \A r \in DOMAIN loaded : loaded[r].pc \in {"done", "error"})
        => \A u \in DOMAIN files :
              files[u].s3_key # NoKey
                 => files[u].s3_key \in objects /\ files[u].s3_key \in backend


\* C27: every multipart request that is over left its session completed or
\* aborted; a completed session was completed with the parts 1..N in
\* ascending order, N the number of chunks.
C27_MultipartAbort ==
    \A r \in DOMAIN loaded :
        loaded[r].pc \in {"done", "error"}
            => /\ loaded[r].session \in {"completed", "aborted"}
               /\ loaded[r].session = "completed"
                     => loaded[r].completed_with
                            = [i \in 1 .. loaded[r].chunks |-> i]


\* C30: no two directories that are not deleted have the same owner,
\* parent_id and filename, and two path resolutions of the same path that are
\* done have reached the same parent_id.
C30_ConcurrentPathResolution ==
    /\ \A u, v \in DOMAIN files :
          (/\ u # v
           /\ files[u].is_directory /\ files[v].is_directory
           /\ ~files[u].is_deleted /\ ~files[v].is_deleted
           /\ files[u].user_id = files[v].user_id
           /\ files[u].parent_id = files[v].parent_id)
              => files[u].filename # files[v].filename
    /\ \A r, q \in DOMAIN loaded :
          (/\ loaded[r].pc = "done" /\ loaded[q].pc = "done"
           /\ loaded[r].parts = loaded[q].parts)
              => loaded[r].parent_id = loaded[q].parent_id

====
